---- MODULE Spec2Model ----
(***************************************************************************)
(* Real-time conversation fan-out of chatcraft-ai: the Socket.IO gateway   *)
(* (server/src/sockets/index.ts) and the per-connection event handlers     *)
(* (server/src/sockets/events.ts).                                         *)
(*                                                                         *)
(* The server is a single Node.js event loop: every handler body without   *)
(* an await runs to completion before another event is handled, so each    *)
(* handler is one atomic action.  The only suspension point on this path   *)
(* is the await of verifyJwtToken in the handshake middleware, which is    *)
(* therefore split into Connect (up to the await) and AuthResolve /        *)
(* AuthReject (after it).                                                  *)
(*                                                                         *)
(* socket.join, socket.leave, io.to(..).emit, socket.to(..).emit and the   *)
(* clean-up on close are calls into Socket.IO's in-memory adapter; they    *)
(* are modelled by the adapter's two maps (rooms, sids) at the call sites. *)
(***************************************************************************)
EXTENDS Integers, Sequences, FiniteSets, TLC

VARIABLES
    phase,        \* per connection: position in its life cycle
    token,        \* per connection: token picked from the handshake (index.ts:9-11)
    user,         \* per connection: socket.data.user (index.ts:21)
    userId,       \* per connection: const userId closed over by the handlers (events.ts:17)
    handlers,     \* per connection: event names with a registered socket.on listener
    rooms,        \* adapter.rooms : room key -> set of socket ids
    sids,         \* adapter.sids  : socket id -> set of room keys
    received,     \* per connection: events the server has written to that client
    connectError, \* per connection: message of the Error handed to next()
    lastEmit,     \* history: the most recent emit made by a handler, and their count
    subscription, \* history: per live <<socket, conversation>>, "none", "joined"
                  \* (last handled room:join) or "left" (room:leave after a join)
    messages,     \* the message table: rows in order of creation
    encryptCalls, \* number of calls of cryptoService.encrypt so far
    outcome,      \* result of the most recent createMessage call or POST request
    unhandled,    \* history: the most recent inbound event no listener took,
                  \* or close signal for a socket already closed
    suspended,    \* the calls of the message:send listener that wait at an await
    ai,           \* the generateResponse call of the AI service, if any
    clock,        \* the wall clock at its most recent reading, in milliseconds
                  \* after its first reading
    calls         \* per call slot: the createMessage call suspended at an await, if any

socketVars == <<phase, token, user, userId, handlers, rooms, sids, received,
                connectError, lastEmit, subscription, suspended>>

\* The variables of the domain services: messages and AI.
restVars == <<messages, encryptCalls, outcome, ai, calls>>

vars == <<phase, token, user, userId, handlers, rooms, sids, received,
          connectError, lastEmit, subscription, messages, encryptCalls, outcome,
          unhandled, suspended, ai, clock, calls>>

----------------------------------------------------------------------------
(* Bounds and input sets *)

\* Number of emits (message:send, typing:start, typing:stop) handled in a run.
MaxBroadcasts == 1

\* Number of message:send events the sending client emits in a run that
\* follows the order of its messages.
MaxSends == 2

\* Number of createMessage calls that get as far as encrypting, in a run.
MaxMessages == 2

\* The latest millisecond the wall clock reaches in a run.
MaxClock == 1

\* The wall clock has not been read yet.
NeverRead == -1

\* Socket ids of the transport connections that may be opened.
Conns == {"s1", "s2"}

\* Conversation ids a client may put in a payload.
Convs == {"c1", "c2"}

\* Message contents a client may put in a message:send payload.
Contents == {"hi", ""}

\* A handshake field that is absent (undefined) or the empty string: both falsy.
NoToken == ""

\* Tokens a client may present in handshake.auth.token.
AuthTokens == {NoToken, "tokA", "tokB", "bad"}

\* Tokens a client may present in handshake.query.token.
QueryTokens == {NoToken, "tokA"}

\* socket.data.user before the middleware has attached anything.
NoUser == [id |-> "", email |-> ""]

\* No Error was passed to next().
NoError == ""

\* AiService.TIMEOUT_MS
TIMEOUT_MS == 8000

\* AiService.FALLBACK_MESSAGE; the em dash (U+2014) of the source is written --
FALLBACK_MESSAGE == "I didn't catch that--could you rephrase?"

\* Milliseconds that pass in one step of the clock.
TickMs == 1000

\* Number of clock steps in a run of the AI service.
MaxTicks == 10

\* The answers the provider may resolve with.
Answers == {[text |-> "I am doing well, thank you!", latencyMs |-> 500],
            [text |-> "", latencyMs |-> 9000],
            [text |-> FALLBACK_MESSAGE, latencyMs |-> 1]}

\* No answer, no result.
NoAnswer == [text |-> "", latencyMs |-> 0]

\* generateResponse has not been called.
NoCall == [phase |-> "idle", ticks |-> 0, provider |-> "idle", answer |-> NoAnswer,
           cause |-> "none", settled |-> "none", value |-> NoAnswer,
           settledAt |-> 0]

\* No inbound event has gone without a listener.
NoEvent == [conn |-> "", name |-> ""]

\* Event names a client may emit that handleSocketEvents does not listen to.
UnknownEvents == {"message:edit"}

\* No createMessage call has been made yet.
NoOutcome ==
    [call |-> "none", ok |-> FALSE, status |-> 0, code |-> "", message |-> <<>>]

\* The createMessage calls and POST requests that may be in progress at once.
CallIds == {"k1", "k2"}

\* What encrypt returns, before encrypt has run.
NoCipher == [ciphertext |-> <<>>, nonce |-> ""]

\* A call slot with no call in progress.
NoRequest == [pc |-> "idle", via |-> "none", conversationId |-> "", uid |-> "",
              content |-> "", enc |-> NoCipher]

\* User ids a request may be authenticated as.
UserIds == {"uA", "uB"}

\* The history before any emit.
NoEmit == [n |-> 0, op |-> "none", conn |-> "", uid |-> "", conv |-> "",
           content |-> "", members |-> {}]

----------------------------------------------------------------------------
(* Collaborators *)

\* The tokens jwt.verify accepts, with the payload it decodes them to.
ValidTokens == {"tokA", "tokB"}

Decoded(t) ==
    IF t = "tokA" THEN [id |-> "uA", email |-> "a@example.com"]
                  ELSE [id |-> "uB", email |-> "b@example.com"]

\* verifyJwtToken(token): resolves with the decoded payload or rejects.
VerifyJwtTokenResolves(t) == t \in ValidTokens

\* The conversationParticipant table: uA takes part in both conversations,
\* uB only in c1.
ParticipantRows == {<<"c1", "uA">>, <<"c1", "uB">>, <<"c2", "uA">>}

\* MessagesService.isUserParticipant
isUserParticipant(conversationId, uid) == <<conversationId, uid>> \in ParticipantRows

----------------------------------------------------------------------------
(* Socket.IO in-memory adapter *)

\* new Map()
EmptyMap == [x \in {} |-> {}]

\* Map.get with an empty set for a missing key.
Get(m, k) == IF k \in DOMAIN m THEN m[k] ELSE {}

\* Map.set
Put(m, k, v) == [x \in DOMAIN m \cup {k} |-> IF x = k THEN v ELSE m[x]]

\* Map.delete
Remove(m, k) == [x \in DOMAIN m \ {k} |-> m[x]]

\* The room key used for a conversation.
RoomKey(conversationId) == "conversation:" \o conversationId

\* Variant: a join by a socket already in the room takes it out again.
RoomsAfterJoinToggles(id, room) ==
    IF id \in Get(rooms, room)
    THEN Put(rooms, room, Get(rooms, room) \ {id})
    ELSE Put(rooms, room, Get(rooms, room) \cup {id})

\* adapter.addAll(id, {room}) : rooms after socket.join(room)
RoomsAfterJoin(id, room) == Put(rooms, room, Get(rooms, room) \cup {id})

\* Variant: joining a room replaces the socket's set of rooms.
SidsAfterJoinReplaces(id, room) == Put(sids, id, {room})

\* adapter.addAll(id, {room}) : sids after socket.join(room)
SidsAfterJoin(id, room) == Put(sids, id, Get(sids, id) \cup {room})

\* Variant: leaving deletes the room whoever is in it.
RoomsAfterLeaveDropsRoom(id, room) == Remove(rooms, room)

\* adapter.del(id, room) : rooms after socket.leave(room); an emptied room is dropped
RoomsAfterLeave(id, room) ==
    IF room \notin DOMAIN rooms THEN rooms
    ELSE IF rooms[room] \ {id} = {} THEN Remove(rooms, room)
         ELSE Put(rooms, room, rooms[room] \ {id})

\* Variant: the socket's own set keeps the room.
SidsAfterLeaveKeeps(id, room) == sids

\* adapter.del(id, room) : sids after socket.leave(room)
SidsAfterLeave(id, room) ==
    IF id \notin DOMAIN sids THEN sids
    ELSE Put(sids, id, sids[id] \ {room})

\* Variant: membership is toggled: the socket is taken out of the rooms it is
\* in and put into the rooms it is not in.
RoomsAfterCloseToggles(id) ==
    [r \in DOMAIN rooms |->
        IF id \in rooms[r] THEN rooms[r] \ {id} ELSE rooms[r] \cup {id}]

\* adapter.delAll(id) : rooms after the socket closed
RoomsAfterClose(id) ==
    LET keep == {r \in DOMAIN rooms : rooms[r] \ {id} # {}}
    IN  [r \in keep |-> rooms[r] \ {id}]

\* adapter.delAll(id) : sids after the socket closed
SidsAfterClose(id) == Remove(sids, id)

\* Variant: every socket of the excluded sockets' users is skipped.
BroadcastTargetsExceptUser(room, exceptRooms) ==
    {id \in Get(rooms, room) :
        \A x \in exceptRooms : \A y \in Get(rooms, x) : userId[id] # userId[y]}

\* adapter.broadcast: the sockets in room, minus those in any of exceptRooms
BroadcastTargets(room, exceptRooms) ==
    {id \in Get(rooms, room) : \A x \in exceptRooms : id \notin Get(rooms, x)}

----------------------------------------------------------------------------
(* Views of the state used by the properties *)

\* The registry's membership set of a conversation's room.
Members(c) == Get(rooms, RoomKey(c))

\* The session's own subscribed-room set (socket.rooms).
SubscribedRooms(s) == Get(sids, s)

\* The listeners handleSocketEvents registers with socket.on.
EventNames == {"room:join", "room:leave", "message:send", "typing:start", "typing:stop"}

----------------------------------------------------------------------------
Init ==
    /\ phase = [c \in Conns |-> "new"]
    /\ token = [c \in Conns |-> NoToken]
    /\ user = [c \in Conns |-> NoUser]
    /\ userId = [c \in Conns |-> ""]
    /\ handlers = [c \in Conns |-> {}]
    /\ rooms = EmptyMap
    /\ sids = EmptyMap
    /\ received = [c \in Conns |-> <<>>]
    /\ connectError = [c \in Conns |-> NoError]
    /\ lastEmit = NoEmit
    /\ subscription = [p \in Conns \X Convs |-> "none"]
    /\ messages = <<>>
    /\ encryptCalls = 0
    /\ outcome = NoOutcome
    /\ unhandled = NoEvent
    /\ suspended = {}
    /\ ai = NoCall
    /\ clock = NeverRead
    /\ calls = [k \in CallIds |-> NoRequest]

----------------------------------------------------------------------------
(* Handshake: authenticateSocket and the connection handler *)

\* Variant: the query string is looked at first.
HandshakeTokenQueryFirst(auth, query) == IF query # NoToken THEN query ELSE auth

\* socket.handshake.auth?.token || socket.handshake.query?.token
HandshakeToken(auth, query) == IF auth # NoToken THEN auth ELSE query

\* Variant: no middleware is installed, the connection handler runs at once.
ConnectBeforeAuth(c, auth, query) ==
    /\ phase[c] = "new"
    /\ token' = [token EXCEPT ![c] = HandshakeToken(auth, query)]
    /\ phase' = [phase EXCEPT ![c] = "connected"]
    /\ userId' = [userId EXCEPT ![c] = user[c].id]
    /\ handlers' = [handlers EXCEPT ![c] = EventNames \cup {"disconnect"}]
    /\ rooms' = RoomsAfterJoin(c, c)
    /\ sids' = SidsAfterJoin(c, c)
    /\ UNCHANGED <<user, received, connectError, lastEmit, subscription>>
    /\ UNCHANGED <<restVars, unhandled, suspended, clock>>

\* authenticateSocket up to the await: a missing token is refused at once,
\* otherwise verifyJwtToken is started.
Connect(c, auth, query) ==
    /\ phase[c] = "new"
    /\ LET t == HandshakeToken(auth, query) IN
         IF t = NoToken
         THEN /\ phase' = [phase EXCEPT ![c] = "rejected"]
              /\ connectError' = [connectError EXCEPT
                                    ![c] = "Authentication error: Token not provided"]
              /\ UNCHANGED token
         ELSE /\ phase' = [phase EXCEPT ![c] = "authing"]
              /\ token' = [token EXCEPT ![c] = t]
              /\ UNCHANGED connectError
    /\ UNCHANGED <<user, userId, handlers, rooms, sids, received, lastEmit, subscription>>
    /\ UNCHANGED <<restVars, unhandled, suspended, clock>>

\* The client's transport closes while verifyJwtToken is still pending.
TransportCloseDuringAuth(c) ==
    /\ phase[c] = "authing"
    /\ phase' = [phase EXCEPT ![c] = "authing_closed"]
    /\ UNCHANGED <<token, user, userId, handlers, rooms, sids, received,
                   connectError, lastEmit, subscription>>
    /\ UNCHANGED <<restVars, unhandled, suspended, clock>>

\* io.on('connection'): the socket has joined its own room (its id) and
\* handleSocketEvents registers the listeners, closing over user.id.
OnConnection(c, decoded) ==
    /\ phase' = [phase EXCEPT ![c] = "connected"]
    /\ userId' = [userId EXCEPT ![c] = decoded.id]
    /\ handlers' = [handlers EXCEPT ![c] = EventNames \cup {"disconnect"}]
    /\ rooms' = RoomsAfterJoin(c, c)
    /\ sids' = SidsAfterJoin(c, c)

\* Variant: the connection event fires although the client has gone.
AuthResolveAfterClose(c) ==
    /\ phase[c] \in {"authing", "authing_closed"}
    /\ VerifyJwtTokenResolves(token[c])
    /\ user' = [user EXCEPT ![c] = Decoded(token[c])]
    /\ phase' = [phase EXCEPT
                   ![c] = IF phase[c] = "authing" THEN "connected" ELSE "ignored"]
    /\ userId' = [userId EXCEPT ![c] = Decoded(token[c]).id]
    /\ handlers' = [handlers EXCEPT ![c] = EventNames \cup {"disconnect"}]
    /\ rooms' = RoomsAfterJoin(c, c)
    /\ sids' = SidsAfterJoin(c, c)
    /\ UNCHANGED <<token, received, connectError, lastEmit, subscription>>
    /\ UNCHANGED <<restVars, unhandled, suspended, clock>>

\* authenticateSocket after the await, verifier resolved: attach the
\* identity, call next(); the connection event fires unless the client has
\* gone in the meantime.
AuthResolve(c) ==
    /\ phase[c] \in {"authing", "authing_closed"}
    /\ VerifyJwtTokenResolves(token[c])
    /\ user' = [user EXCEPT ![c] = Decoded(token[c])]
    /\ IF phase[c] = "authing"
       THEN OnConnection(c, Decoded(token[c]))
       ELSE /\ phase' = [phase EXCEPT ![c] = "ignored"]
            /\ UNCHANGED <<userId, handlers, rooms, sids>>
    /\ UNCHANGED <<token, received, connectError, lastEmit, subscription>>
    /\ UNCHANGED <<restVars, unhandled, suspended, clock>>

\* Variant: the catch block calls next() with no error.
AuthRejectCallsNext(c) ==
    /\ phase[c] \in {"authing", "authing_closed"}
    /\ ~VerifyJwtTokenResolves(token[c])
    /\ IF phase[c] = "authing"
       THEN OnConnection(c, user[c])
       ELSE /\ phase' = [phase EXCEPT ![c] = "ignored"]
            /\ UNCHANGED <<userId, handlers, rooms, sids>>
    /\ UNCHANGED <<token, user, received, connectError, lastEmit, subscription>>
    /\ UNCHANGED <<restVars, unhandled, suspended, clock>>

\* authenticateSocket after the await, verifier rejected: next(Error).  The
\* error reaches the client as connect_error unless the client has gone.
AuthReject(c) ==
    /\ phase[c] \in {"authing", "authing_closed"}
    /\ ~VerifyJwtTokenResolves(token[c])
    /\ connectError' = [connectError EXCEPT
                          ![c] = "Authentication error: Invalid token"]
    /\ phase' = [phase EXCEPT
                   ![c] = IF phase[c] = "authing" THEN "rejected" ELSE "ignored"]
    /\ UNCHANGED <<token, user, userId, handlers, rooms, sids, received, lastEmit,
                   subscription>>
    /\ UNCHANGED <<restVars, unhandled, suspended, clock>>

----------------------------------------------------------------------------
(* Event handlers registered by handleSocketEvents *)

CanHandleOnlyInRooms(c, ev) ==
    /\ phase[c] = "connected"
    /\ ev \in handlers[c]
    /\ ev = "message:send" => \E v \in Convs : c \in Members(v)

\* The listener for ev on connection c can run.
CanHandle(c, ev) == phase[c] = "connected" /\ ev \in handlers[c]

\* What the wall clock may show when it is read.  Time is counted from the
\* first reading; a later reading shows the millisecond of the previous
\* reading, or a later one.
ClockReadings ==
    IF clock = NeverRead THEN {0} ELSE {t \in {clock, clock + 1} : t <= MaxClock}

\* Date.prototype.toISOString for an instant t milliseconds after the epoch,
\* t below one second.
ToISOString(t) ==
    "1970-01-01T00:00:00."
        \o (IF t < 10 THEN "00" ELSE IF t < 100 THEN "0" ELSE "")
        \o ToString(t) \o "Z"

\* new Date(): the reading of the wall clock taken in this step.
Now == clock'

\* Variant: senderId and conversationId are swapped.
MockMessageSwapped(uid, conversationId, content) ==
    [id |-> "temp-id", conversationId |-> uid, senderId |-> conversationId,
     type |-> "text", content |-> content, createdAt |-> ToISOString(Now)]

\* const mockMessage: MessageDTO = {...}
MockMessage(uid, conversationId, content) ==
    [id |-> "temp-id", conversationId |-> conversationId, senderId |-> uid,
     type |-> "text", content |-> content, createdAt |-> ToISOString(Now)]

\* Variant: the user id is taken from a field of the client's payload.
TypingUpdateFromPayload(uid, isTyping, conversationId) ==
    [userId |-> conversationId, isTyping |-> isTyping, conversationId |-> conversationId]

\* The payload of typing:update.
TypingUpdate(uid, isTyping, conversationId) ==
    [userId |-> uid, isTyping |-> isTyping, conversationId |-> conversationId]

\* Variant: io.emit, which reaches every connected socket.
IoToEveryone(room) == {s \in Conns : phase[s] = "connected"}

\* io.to(room): every socket in the room.
IoTo(room) == BroadcastTargets(room, {})

\* Variant: the sender is not excluded.
SocketToIncludingSender(c, room) == BroadcastTargets(room, {})

\* socket.to(room): every socket in the room except the sender, which is
\* excluded through its own room.
SocketTo(c, room) == BroadcastTargets(room, {c})

\* The packets the server has written for each connection after an emit to
\* the targets: one more packet for each target.
EmitTo(rcv, targets, name, payload) ==
    [s \in Conns |-> IF s \in targets
                     THEN Append(rcv[s],
                                 [name |-> name, payload |-> payload, emit |-> lastEmit.n + 1])
                     ELSE rcv[s]]

\* emit(name, payload) to the targets: one packet written to each target.
\* The packet carries the number of its emit, for the history only.
Emit(targets, name, payload) == EmitTo(received, targets, name, payload)

\* The history record of an emit: who asked for what, and the membership of
\* the conversation's room at that instant.
EmitRecord(c, ev, conversationId, content) ==
    [n |-> lastEmit.n + 1, op |-> ev, conn |-> c, uid |-> user[c].id, conv |-> conversationId,
     content |-> content, members |-> Members(conversationId)]

\* Variant: the join is acknowledged to the joining socket.
RoomJoinAcks(c, conversationId) ==
    /\ CanHandle(c, "room:join")
    /\ rooms' = RoomsAfterJoin(c, RoomKey(conversationId))
    /\ sids' = SidsAfterJoin(c, RoomKey(conversationId))
    /\ subscription' = [subscription EXCEPT ![<<c, conversationId>>] = "joined"]
    /\ received' = Emit({c}, "room:joined", [conversationId |-> conversationId])
    /\ UNCHANGED <<phase, token, user, userId, handlers, connectError, lastEmit>>
    /\ UNCHANGED <<restVars, unhandled, suspended, clock>>

\* socket.on('room:join')
RoomJoin(c, conversationId) ==
    /\ CanHandle(c, "room:join")
    /\ rooms' = RoomsAfterJoin(c, RoomKey(conversationId))
    /\ sids' = SidsAfterJoin(c, RoomKey(conversationId))
    /\ subscription' = [subscription EXCEPT ![<<c, conversationId>>] = "joined"]
    /\ UNCHANGED <<phase, token, user, userId, handlers, received, connectError,
                   lastEmit>>
    /\ UNCHANGED <<restVars, unhandled, suspended, clock>>

\* Variant: socket.leave is given the bare conversation id.
RoomLeaveUnprefixed(c, conversationId) ==
    /\ CanHandle(c, "room:leave")
    /\ rooms' = RoomsAfterLeave(c, conversationId)
    /\ sids' = SidsAfterLeave(c, conversationId)
    /\ subscription' = [subscription EXCEPT ![<<c, conversationId>>] =
                          IF @ = "joined" THEN "left" ELSE @]
    /\ UNCHANGED <<phase, token, user, userId, handlers, received, connectError,
                   lastEmit>>
    /\ UNCHANGED <<restVars, unhandled, suspended, clock>>

\* socket.on('room:leave')
RoomLeave(c, conversationId) ==
    /\ CanHandle(c, "room:leave")
    /\ rooms' = RoomsAfterLeave(c, RoomKey(conversationId))
    /\ sids' = SidsAfterLeave(c, RoomKey(conversationId))
    /\ subscription' = [subscription EXCEPT ![<<c, conversationId>>] =
                          IF @ = "joined" THEN "left" ELSE @]
    /\ UNCHANGED <<phase, token, user, userId, handlers, received, connectError,
                   lastEmit>>
    /\ UNCHANGED <<restVars, unhandled, suspended, clock>>

\* Variant: message:new is emitted with socket.to, which skips the sender.
MessageSendViaSocketTo(c, conversationId, content) ==
    /\ CanHandle(c, "message:send")
    /\ lastEmit.n < MaxBroadcasts
    /\ clock' \in ClockReadings
    /\ received' = Emit(SocketTo(c, RoomKey(conversationId)), "message:new",
                        MockMessage(userId[c], conversationId, content))
    /\ lastEmit' = EmitRecord(c, "message:send", conversationId, content)
    /\ UNCHANGED <<phase, token, user, userId, handlers, rooms, sids,
                   connectError, subscription>>
    /\ UNCHANGED <<restVars, unhandled, suspended>>

\* socket.on('message:send'): the try block.  It contains no await and no
\* call that throws on these inputs, so the catch block is never entered.
MessageSend(c, conversationId, content) ==
    /\ CanHandle(c, "message:send")
    /\ lastEmit.n < MaxBroadcasts
    /\ clock' \in ClockReadings
    /\ received' = Emit(IoTo(RoomKey(conversationId)), "message:new",
                        MockMessage(userId[c], conversationId, content))
    /\ lastEmit' = EmitRecord(c, "message:send", conversationId, content)
    /\ UNCHANGED <<phase, token, user, userId, handlers, rooms, sids,
                   connectError, subscription>>
    /\ UNCHANGED <<restVars, unhandled, suspended>>

\* Variant: typing in a conversation also joins its room.
TypingStartJoins(c, conversationId) ==
    /\ CanHandle(c, "typing:start")
    /\ lastEmit.n < MaxBroadcasts
    /\ received' = Emit(SocketTo(c, RoomKey(conversationId)), "typing:update",
                        TypingUpdate(userId[c], TRUE, conversationId))
    /\ lastEmit' = EmitRecord(c, "typing:start", conversationId, "")
    /\ rooms' = RoomsAfterJoin(c, RoomKey(conversationId))
    /\ sids' = SidsAfterJoin(c, RoomKey(conversationId))
    /\ UNCHANGED <<phase, token, user, userId, handlers, connectError, subscription>>
    /\ UNCHANGED <<restVars, unhandled, suspended, clock>>

\* socket.on('typing:start')
TypingStart(c, conversationId) ==
    /\ CanHandle(c, "typing:start")
    /\ lastEmit.n < MaxBroadcasts
    /\ received' = Emit(SocketTo(c, RoomKey(conversationId)), "typing:update",
                        TypingUpdate(userId[c], TRUE, conversationId))
    /\ lastEmit' = EmitRecord(c, "typing:start", conversationId, "")
    /\ UNCHANGED <<phase, token, user, userId, handlers, rooms, sids,
                   connectError, subscription>>
    /\ UNCHANGED <<restVars, unhandled, suspended, clock>>

\* socket.on('typing:stop')
TypingStop(c, conversationId) ==
    /\ CanHandle(c, "typing:stop")
    /\ lastEmit.n < MaxBroadcasts
    /\ received' = Emit(SocketTo(c, RoomKey(conversationId)), "typing:update",
                        TypingUpdate(userId[c], FALSE, conversationId))
    /\ lastEmit' = EmitRecord(c, "typing:stop", conversationId, "")
    /\ UNCHANGED <<phase, token, user, userId, handlers, rooms, sids,
                   connectError, subscription>>
    /\ UNCHANGED <<restVars, unhandled, suspended, clock>>

\* Variant: only the disconnect listener runs; the rooms are not cleaned.
DisconnectKeepsRooms(c) ==
    /\ CanHandle(c, "disconnect")
    /\ phase' = [phase EXCEPT ![c] = "closed"]
    /\ subscription' = [p \in Conns \X Convs |->
                          IF p[1] = c THEN "none" ELSE subscription[p]]
    /\ UNCHANGED <<token, user, userId, handlers, rooms, sids, received,
                   connectError, lastEmit>>
    /\ UNCHANGED <<restVars, unhandled, suspended, clock>>

\* The transport of a connected socket closes: Socket.IO removes the socket
\* from every room, then socket.on('disconnect') runs and only logs.
Disconnect(c) ==
    /\ CanHandle(c, "disconnect")
    /\ phase' = [phase EXCEPT ![c] = "closed"]
    /\ rooms' = RoomsAfterClose(c)
    /\ sids' = SidsAfterClose(c)
    /\ subscription' = [p \in Conns \X Convs |->
                          IF p[1] = c THEN "none" ELSE subscription[p]]
    /\ UNCHANGED <<token, user, userId, handlers, received, connectError, lastEmit>>
    /\ UNCHANGED <<restVars, unhandled, suspended, clock>>

\* Variant: the catch block reports the error to every connection.
SocketEmitToAll(c) == Conns

\* socket.emit: the targets of an emit on the socket itself.
SocketEmit(c) == {c}

\* A message:send whose try block throws after the packets for some of the
\* room's members were written: the catch block emits an error on the
\* sender's socket.  The only call of the try block that could throw is
\* Socket.IO's emit, for one a write to a transport that has gone; whether it
\* ever does is outside this code, and both outcomes are steps of the model.
MessageSendThrows(c, conversationId, content, written) ==
    /\ CanHandle(c, "message:send")
    /\ lastEmit.n < MaxBroadcasts
    /\ clock' \in ClockReadings
    /\ written \subseteq IoTo(RoomKey(conversationId))
    /\ received' =
          EmitTo(EmitTo(received, written, "message:new",
                        MockMessage(userId[c], conversationId, content)),
                 SocketEmit(c), "error",
                 [code |-> "MESSAGE_SEND_ERROR", message |-> "Failed to send message"])
    /\ lastEmit' = EmitRecord(c, "message:send/catch", conversationId, content)
    /\ UNCHANGED <<phase, token, user, userId, handlers, rooms, sids,
                   connectError, subscription>>
    /\ UNCHANGED <<restVars, unhandled, suspended>>

\* The transport of a connected socket fails; the server has not noticed yet.
TransportDies(c) ==
    /\ phase[c] = "connected"
    /\ phase' = [phase EXCEPT ![c] = "dying"]
    /\ UNCHANGED <<token, user, userId, handlers, rooms, sids, received,
                   connectError, lastEmit, subscription>>
    /\ UNCHANGED <<restVars, unhandled, suspended, clock>>

\* The server notices the dead transport: the socket is closed as on any
\* disconnect, leaving every room, and socket.on('disconnect') logs.
CloseDetected(c) ==
    /\ phase[c] = "dying"
    /\ "disconnect" \in handlers[c]
    /\ phase' = [phase EXCEPT ![c] = "closed"]
    /\ rooms' = RoomsAfterClose(c)
    /\ sids' = SidsAfterClose(c)
    /\ subscription' = [p \in Conns \X Convs |->
                          IF p[1] = c THEN "none" ELSE subscription[p]]
    /\ UNCHANGED <<token, user, userId, handlers, received, connectError, lastEmit>>
    /\ UNCHANGED <<restVars, unhandled, suspended, clock>>

\* A second close signal for a socket that is already closed.  What Socket.IO
\* does with it is outside this code: it ignores the signal, or it goes
\* through the close once more (again): the socket is taken out of every room
\* and the listener of 'disconnect', which only logs, runs a second time.
DuplicateClose(c, again) ==
    /\ phase[c] = "closed"
    /\ unhandled' = [conn |-> c, name |-> "close"]
    /\ rooms' = IF again THEN RoomsAfterClose(c) ELSE rooms
    /\ sids' = IF again THEN SidsAfterClose(c) ELSE sids
    /\ subscription' = IF again
                       THEN [p \in Conns \X Convs |->
                               IF p[1] = c THEN "none" ELSE subscription[p]]
                       ELSE subscription
    /\ UNCHANGED <<phase, token, user, userId, handlers, received, connectError,
                   lastEmit, suspended>>
    /\ UNCHANGED <<restVars, clock>>

\* An inbound event with a name no listener is registered for: the emitter
\* finds no listener and nothing runs.
UnknownEvent(c, ev) ==
    /\ phase[c] = "connected"
    /\ ev \notin handlers[c]
    /\ unhandled' = [conn |-> c, name |-> ev]
    /\ UNCHANGED <<socketVars, restVars, clock>>

----------------------------------------------------------------------------
Next ==
    \/ \E c \in Conns, a \in AuthTokens, q \in QueryTokens : Connect(c, a, q)
    \/ \E c \in Conns : TransportCloseDuringAuth(c)
    \/ \E c \in Conns : AuthResolve(c)
    \/ \E c \in Conns : AuthReject(c)
    \/ \E c \in Conns, v \in Convs : RoomJoin(c, v)
    \/ \E c \in Conns, v \in Convs : RoomLeave(c, v)
    \/ \E c \in Conns, v \in Convs, x \in Contents : MessageSend(c, v, x)
    \/ \E c \in Conns, v \in Convs : TypingStart(c, v)
    \/ \E c \in Conns, v \in Convs : TypingStop(c, v)
    \/ \E c \in Conns : Disconnect(c)

Spec == Init /\ [][Next]_vars

\* The server with clients that also emit event names it does not listen to.
NextProtocol ==
    \/ Next
    \/ \E c \in Conns, ev \in UnknownEvents : UnknownEvent(c, ev)

SpecProtocol == Init /\ [][NextProtocol]_vars

\* The server with clients that go away during the handshake and transports
\* that die: the handshake, room:join and the ways a connection ends.
NextHandshake ==
    \/ \E c \in Conns, a \in AuthTokens, q \in QueryTokens : Connect(c, a, q)
    \/ \E c \in Conns : TransportCloseDuringAuth(c)
    \/ \E c \in Conns : AuthResolve(c)
    \/ \E c \in Conns : AuthReject(c)
    \/ \E c \in Conns, v \in Convs : RoomJoin(c, v)
    \/ \E c \in Conns : Disconnect(c)
    \/ \E c \in Conns : TransportDies(c)
    \/ \E c \in Conns : CloseDetected(c)

\* The promise of verifyJwtToken always settles, and the heartbeat always
\* notices a dead transport.
SpecHandshakeFair ==
    /\ Init /\ [][NextHandshake]_vars
    /\ \A c \in Conns : WF_vars(AuthResolve(c))
    /\ \A c \in Conns : WF_vars(AuthReject(c))
    /\ \A c \in Conns : WF_vars(CloseDetected(c))

\* The messages the sending client sends, in the order it sends them.
FifoContents == <<"m1", "m2", "m3", "m4">>

\* The connection whose client sends the messages.
FifoSender == "s1"

\* Position of a content in the order of sending.
SendOrder(x) == CHOOSE k \in DOMAIN FifoContents : FifoContents[k] = x

\* Number of message:send events of the sending client the server has
\* received: one call of the listener each, finished or waiting.
Arrived == lastEmit.n + Cardinality(suspended)

\* Variant: the call of messagesService.createMessage is in the code, and the
\* listener awaits it before it emits.
AwaitsBeforeEmitRestored == TRUE

\* Whether the listener of message:send awaits anything before its emit.  It
\* does not: the awaited call of messagesService.createMessage is commented
\* out, and nothing else in the try block is awaited.
AwaitsBeforeEmit == FALSE

\* The listener's emit for a message of the sending client, and its record.
FifoEmit(conversationId, content) ==
    /\ clock' \in ClockReadings
    /\ received' = Emit(IoTo(RoomKey(conversationId)), "message:new",
                        MockMessage(userId[FifoSender], conversationId, content))
    /\ lastEmit' = EmitRecord(FifoSender, "message:send", conversationId, content)

\* socket.on('message:send', async ...) for the events of the sending client,
\* which are received in the order the client sends them.  An async listener
\* runs up to its first await when it is called with the event (received) and
\* the rest once the awaited promise has settled, whenever that is; with no
\* await it runs to its end in the call.
AsyncMessageSend(conversationId, resumed) ==
    /\ CanHandle(FifoSender, "message:send")
    /\ IF resumed
       THEN \E call \in suspended :
               /\ call.conv = conversationId
               /\ FifoEmit(conversationId, call.content)
               /\ suspended' = suspended \ {call}
       ELSE /\ Arrived < MaxSends
            /\ IF AwaitsBeforeEmit
               THEN /\ suspended' = suspended \cup
                          {[conv |-> conversationId, content |-> FifoContents[Arrived + 1]]}
                    /\ UNCHANGED <<received, lastEmit, clock>>
               ELSE /\ FifoEmit(conversationId, FifoContents[Arrived + 1])
                    /\ UNCHANGED suspended
    /\ UNCHANGED <<phase, token, user, userId, handlers, rooms, sids,
                   connectError, subscription>>
    /\ UNCHANGED <<restVars, unhandled>>

\* The server with a client that sends several messages.  The clients present
\* a valid token; one of them sends messages, both join rooms.
NextFifo ==
    \/ \E c \in Conns : Connect(c, "tokA", NoToken)
    \/ \E c \in Conns : AuthResolve(c)
    \/ \E c \in Conns, v \in Convs : RoomJoin(c, v)
    \/ \E v \in Convs, resumed \in BOOLEAN : AsyncMessageSend(v, resumed)

SpecFifo == Init /\ [][NextFifo]_vars

\* The server with transports that may signal a close again after the close
\* was handled.  The clients present valid tokens, join, send and disconnect.
NextClose ==
    \/ \E c \in Conns, a \in ValidTokens : Connect(c, a, NoToken)
    \/ \E c \in Conns : AuthResolve(c)
    \/ \E c \in Conns, v \in Convs : RoomJoin(c, v)
    \/ \E c \in Conns, v \in Convs, x \in Contents : MessageSend(c, v, x)
    \/ \E c \in Conns : Disconnect(c)
    \/ \E c \in Conns, again \in BOOLEAN : DuplicateClose(c, again)

SpecClose == Init /\ [][NextClose]_vars

\* Message contents sent in the runs with failures.
FaultContents == {"hi"}

\* The server with failures: a try block that throws, transports that die.
\* The clients present valid tokens, join rooms, send and disconnect.
NextFault ==
    \/ \E c \in Conns, a \in ValidTokens : Connect(c, a, NoToken)
    \/ \E c \in Conns : AuthResolve(c)
    \/ \E c \in Conns, v \in Convs : RoomJoin(c, v)
    \/ \E c \in Conns, v \in Convs, x \in FaultContents : MessageSend(c, v, x)
    \/ \E c \in Conns : Disconnect(c)
    \/ \E c \in Conns, v \in Convs, x \in FaultContents, w \in SUBSET Conns :
          MessageSendThrows(c, v, x, w)
    \/ \E c \in Conns : TransportDies(c)
    \/ \E c \in Conns : CloseDetected(c)

SpecFault == Init /\ [][NextFault]_vars

\* The server with every listener that emits, and a try block that may
\* throw.  The clients present a valid token, join rooms, send and type.
NextEmit ==
    \/ \E c \in Conns : Connect(c, "tokA", NoToken)
    \/ \E c \in Conns : AuthResolve(c)
    \/ \E c \in Conns, v \in Convs : RoomJoin(c, v)
    \/ \E c \in Conns, v \in Convs, x \in FaultContents : MessageSend(c, v, x)
    \/ \E c \in Conns, v \in Convs, x \in FaultContents, w \in SUBSET Conns :
          MessageSendThrows(c, v, x, w)
    \/ \E c \in Conns, v \in Convs : TypingStart(c, v)
    \/ \E c \in Conns, v \in Convs : TypingStop(c, v)

SpecEmit == Init /\ [][NextEmit]_vars

-----------------------------------------------------------------------------
(* The persistence path: MessagesService.createMessage and the REST route
   POST /conversations/:conversationId/messages that calls it.  The socket
   handlers above never call it, so these actions are not part of Next.
   createMessage awaits twice, the participant query and the insert; at each
   await the event loop serves other requests, so a call is three steps: up
   to the first await, from the query's answer to the second await, and from
   the insert's answer to the return.  Either database call may reject. *)

\* crypto.randomBytes(16): the nonces encrypt may draw.
Nonces == {"n1", "n2"}

\* createMessageSchema: content is a string of at least one character.
SchemaAccepts(content) == content # ""

\* cryptoService.encrypt: AES-256-CBC of the plaintext under a nonce.
Encrypt(plaintext, nonce) ==
    [ciphertext |-> <<"aes-256-cbc", nonce, plaintext>>, nonce |-> nonce]

\* The primary key the database gives to the next row.
NewId == "m" \o ToString(Len(messages) + 1)

\* The error createMessage throws for a user outside the conversation.
NotParticipantError ==
    [threw |-> TRUE, statusCode |-> 403, code |-> "NOT_PARTICIPANT",
     message |-> <<>>]

\* The errors a rejected prisma call may throw.  The call is outside this
\* code, so the error may or may not carry a code and a statusCode (0 and ""
\* stand for a missing field); "P1001" is Prisma's code for a database that
\* cannot be reached.
StorageErrors ==
    {[threw |-> TRUE, statusCode |-> 0, code |-> "", message |-> <<>>],
     [threw |-> TRUE, statusCode |-> 0, code |-> "P1001", message |-> <<>>],
     [threw |-> TRUE, statusCode |-> 503, code |-> "P1001", message |-> <<>>]}

\* Variant: the participant check is missing.
createMessageUnchecked(conversationId, uid, content, nonce) ==
    [threw |-> FALSE, error |-> NotParticipantError, enc |-> Encrypt(content, nonce)]

\* MessagesService.createMessage between its two awaits: given the answer of
\* the participant query, it throws NOT_PARTICIPANT or encrypts the content
\* for the row it is about to create.
createMessage(conversationId, uid, content, nonce) ==
    IF ~isUserParticipant(conversationId, uid)
    THEN [threw |-> TRUE, error |-> NotParticipantError, enc |-> NoCipher]
    ELSE [threw |-> FALSE, error |-> NotParticipantError,
          enc |-> Encrypt(content, nonce)]

\* prisma.message.create resolving at instant t for a suspended call: the
\* row the database adds, and the message createMessage returns, with the
\* original content.
StoreMessage(call, t) ==
    LET row == [id |-> NewId,
                conversationId |-> call.conversationId,
                senderId |-> call.uid,
                type |-> "text",
                ciphertext |-> call.enc.ciphertext,
                nonce |-> call.enc.nonce,
                createdAt |-> t]
    IN  [messages |-> Append(messages, row),
         result |->
             [threw |-> FALSE, statusCode |-> 0, code |-> "",
              message |-> [id |-> row.id,
                           conversationId |-> row.conversationId,
                           senderId |-> row.senderId,
                           type |-> row.type,
                           content |-> call.content,
                           createdAt |-> ToISOString(row.createdAt),
                           sender |-> [id |-> row.senderId]]]]

\* What the caller of messagesService.createMessage gets when the promise
\* settles with result.
ServiceOutcome(result) ==
    [call |-> "service", ok |-> ~result.threw, status |-> result.statusCode,
     code |-> result.code, message |-> result.message]

\* MessagesController.createMessage after its await: 201 with the message,
\* or the catch block's response for what the service threw.
ControllerResponse(result) ==
    IF ~result.threw
    THEN [call |-> "rest", ok |-> TRUE, status |-> 201, code |-> "",
          message |-> result.message]
    ELSE [call |-> "rest", ok |-> FALSE,
          status |-> IF result.statusCode # 0 THEN result.statusCode ELSE 500,
          code |-> IF result.code # "" THEN result.code ELSE "INTERNAL_ERROR",
          message |-> <<>>]

\* The promise of call k settles with result: the direct caller sees it, the
\* controller turns it into a response.
Settle(k, result) ==
    /\ outcome' = IF calls[k].via = "rest"
                  THEN ControllerResponse(result) ELSE ServiceOutcome(result)
    /\ calls' = [calls EXCEPT ![k] = NoRequest]

\* Calls that have not encrypted yet and still may.
AwaitingParticipant == {k \in CallIds : calls[k].pc = "findFirst"}

\* createMessage runs up to its first await: the participant query is sent.
StartCall(k, via, conversationId, uid, content) ==
    /\ calls[k].pc = "idle"
    /\ encryptCalls + Cardinality(AwaitingParticipant) < MaxMessages
    /\ calls' = [calls EXCEPT ![k] =
                    [pc |-> "findFirst", via |-> via,
                     conversationId |-> conversationId, uid |-> uid,
                     content |-> content, enc |-> NoCipher]]

\* A direct call of messagesService.createMessage, up to the await of
\* isUserParticipant.
MessagesServiceCreateMessage(k, conversationId, uid, content) ==
    /\ StartCall(k, "service", conversationId, uid, content)
    /\ UNCHANGED <<messages, encryptCalls, outcome>>
    /\ UNCHANGED <<socketVars, unhandled, ai, clock>>

\* MessagesController.createMessage: POST of a body {content} by the
\* authenticated user uid, up to the await of messagesService.createMessage.
\* A body the schema refuses is answered at once.
MessagesControllerCreateMessage(k, conversationId, uid, content) ==
    /\ calls[k].pc = "idle"
    /\ IF ~SchemaAccepts(content)
       THEN /\ outcome' = [call |-> "rest", ok |-> FALSE, status |-> 400,
                           code |-> "VALIDATION_ERROR", message |-> <<>>]
            /\ UNCHANGED calls
       ELSE /\ StartCall(k, "rest", conversationId, uid, content)
            /\ UNCHANGED outcome
    /\ UNCHANGED <<messages, encryptCalls>>
    /\ UNCHANGED <<socketVars, unhandled, ai, clock>>

\* conversationParticipant.findFirst resolves for call k: createMessage
\* resumes, throws NOT_PARTICIPANT or encrypts and sends the insert, and is
\* suspended again at the await of prisma.message.create.
FindFirstResolves(k, nonce) ==
    /\ calls[k].pc = "findFirst"
    /\ LET r == createMessage(calls[k].conversationId, calls[k].uid,
                              calls[k].content, nonce) IN
       IF r.threw
       THEN /\ Settle(k, r.error)
            /\ UNCHANGED encryptCalls
       ELSE /\ encryptCalls' = encryptCalls + 1
            /\ calls' = [calls EXCEPT ![k].pc = "create", ![k].enc = r.enc]
            /\ UNCHANGED outcome
    /\ UNCHANGED messages
    /\ UNCHANGED <<socketVars, unhandled, ai, clock>>

\* conversationParticipant.findFirst rejects for call k (the database cannot
\* be reached): the rejection passes through both awaits to the caller.
FindFirstRejects(k, error) ==
    /\ calls[k].pc = "findFirst"
    /\ Settle(k, error)
    /\ UNCHANGED <<messages, encryptCalls>>
    /\ UNCHANGED <<socketVars, unhandled, ai, clock>>

\* prisma.message.create resolves for call k: the row is in the table with
\* the database's time of insertion, and createMessage returns the message.
MessageCreateResolves(k) ==
    /\ calls[k].pc = "create"
    /\ clock' \in ClockReadings
    /\ LET r == StoreMessage(calls[k], clock') IN
       /\ messages' = r.messages
       /\ Settle(k, r.result)
    /\ UNCHANGED encryptCalls
    /\ UNCHANGED <<socketVars, unhandled, ai>>

\* prisma.message.create rejects for call k: no row, the rejection reaches
\* the caller.
MessageCreateRejects(k, error) ==
    /\ calls[k].pc = "create"
    /\ Settle(k, error)
    /\ UNCHANGED <<messages, encryptCalls>>
    /\ UNCHANGED <<socketVars, unhandled, ai, clock>>

NextRest ==
    \/ \E k \in CallIds, v \in Convs, u \in UserIds, x \in Contents :
          MessagesServiceCreateMessage(k, v, u, x)
    \/ \E k \in CallIds, v \in Convs, u \in UserIds, x \in Contents :
          MessagesControllerCreateMessage(k, v, u, x)
    \/ \E k \in CallIds, n \in Nonces : FindFirstResolves(k, n)
    \/ \E k \in CallIds, e \in StorageErrors : FindFirstRejects(k, e)
    \/ \E k \in CallIds : MessageCreateResolves(k)
    \/ \E k \in CallIds, e \in StorageErrors : MessageCreateRejects(k, e)

SpecRest == Init /\ [][NextRest]_vars

-----------------------------------------------------------------------------
(* AiService.generateResponse: the provider raced against a timer *)

\* Milliseconds since generateResponse was called.
ElapsedMs == ai.ticks * TickMs

\* Variant: there is no catch block, the rejection goes to the caller.
CatchRethrows == [settled |-> "rejected", value |-> NoAnswer]

\* The catch block: log, return the fallback message with latencyMs 0.
Catch == [settled |-> "resolved", value |-> [text |-> FALLBACK_MESSAGE, latencyMs |-> 0]]

\* generateResponse is called: the history is prepared, the timer is armed,
\* provider.generate is called and both promises are raced.  If preparing the
\* history or calling the provider throws at once, the catch block runs.
GenerateResponse(throws) ==
    /\ ai.phase = "idle"
    /\ ai' = IF throws
             THEN [ai EXCEPT !.phase = "settled", !.cause = "threw", !.settledAt = ElapsedMs,
                             !.settled = Catch.settled, !.value = Catch.value]
             ELSE [ai EXCEPT !.phase = "racing", !.provider = "pending"]
    /\ UNCHANGED <<socketVars, unhandled, messages, encryptCalls, outcome, clock, calls>>

\* The provider's promise resolves.  If the race is still open the await
\* returns the answer; after the timer has won nobody listens.
ProviderResolves(answer) ==
    /\ ai.provider = "pending"
    /\ ai' = IF ai.phase = "racing"
             THEN [ai EXCEPT !.provider = "resolved", !.answer = answer,
                             !.phase = "settled", !.cause = "provider", !.settledAt = ElapsedMs,
                             !.settled = "resolved", !.value = answer]
             ELSE [ai EXCEPT !.provider = "resolved", !.answer = answer]
    /\ UNCHANGED <<socketVars, unhandled, messages, encryptCalls, outcome, clock, calls>>

\* The provider's promise rejects.  If the race is still open the await
\* throws and the catch block runs.
ProviderRejects ==
    /\ ai.provider = "pending"
    /\ ai' = IF ai.phase = "racing"
             THEN [ai EXCEPT !.provider = "rejected",
                             !.phase = "settled", !.cause = "rejected", !.settledAt = ElapsedMs,
                             !.settled = Catch.settled, !.value = Catch.value]
             ELSE [ai EXCEPT !.provider = "rejected"]
    /\ UNCHANGED <<socketVars, unhandled, messages, encryptCalls, outcome, clock, calls>>

\* The callback of setTimeout(..., TIMEOUT_MS) runs while the race is open:
\* the timeout promise rejects, the await throws and the catch block runs.
\* The callback runs when the event loop gets to it, TIMEOUT_MS after the call
\* or later.
TimerFires ==
    /\ ai.phase = "racing"
    /\ ElapsedMs >= TIMEOUT_MS
    /\ ai' = [ai EXCEPT !.phase = "settled", !.cause = "timeout", !.settledAt = ElapsedMs,
                        !.settled = Catch.settled, !.value = Catch.value]
    /\ UNCHANGED <<socketVars, unhandled, messages, encryptCalls, outcome, clock, calls>>

\* Time passes.  It also passes while the timer is due and its callback has
\* not run yet, because the event loop is busy with another callback.
Tick ==
    /\ ai.phase # "idle"
    /\ ai.ticks < MaxTicks
    /\ ai' = [ai EXCEPT !.ticks = @ + 1]
    /\ UNCHANGED <<socketVars, unhandled, messages, encryptCalls, outcome, clock, calls>>

NextAi ==
    \/ \E throws \in BOOLEAN : GenerateResponse(throws)
    \/ \E answer \in Answers : ProviderResolves(answer)
    \/ ProviderRejects
    \/ TimerFires
    \/ Tick

\* Time passes and the event loop gets to a timer that is due.
SpecAiFair == Init /\ [][NextAi]_vars /\ WF_vars(Tick) /\ WF_vars(TimerFires)

----------------------------------------------------------------------------
(* Vocabulary of the properties *)

\* Number of packets of emit number n written to connection s.
Copies(s, n) == Cardinality({i \in DOMAIN received[s] : received[s][i].emit = n})

\* The packets of emit number n written to connection s.
PacketsOf(s, n) == {received[s][i] : i \in {j \in DOMAIN received[s] : received[s][j].emit = n}}

\* The packets written to connection s in the current step.
NewPackets(s) ==
    {received'[s][i] : i \in (DOMAIN received'[s]) \ (DOMAIN received[s])}

\* Connection c has no session: no listener, no room, nothing received, and
\* the last emit was not caused by it.
NoSession(c) ==
    /\ handlers[c] = {}
    /\ c \notin DOMAIN sids
    /\ \A r \in DOMAIN rooms : c \notin rooms[r]
    /\ received[c] = <<>>
    /\ lastEmit.conn # c

\* The handshake of connection c has run to its verdict.
HandshakeDone(c) == phase[c] \notin {"new", "authing", "authing_closed"}

AuthErrors == {"Authentication error: Token not provided",
               "Authentication error: Invalid token"}

----------------------------------------------------------------------------
(* C1..C10 *)

\* C1: a connection whose token is missing or refused by the verifier is
\* rejected with an authentication error and never gets a session: no
\* listener is registered for it, it is in no room, it receives nothing and
\* causes no emit.
C1_RejectedHasNoSession ==
    \A c \in Conns :
        token[c] \notin ValidTokens =>
            /\ NoSession(c)
            /\ HandshakeDone(c) => /\ phase[c] \in {"rejected", "ignored"}
                                   /\ connectError[c] \in AuthErrors

C1_Witness ==
    \E c, d \in Conns :
        /\ phase[c] = "rejected" /\ token[c] = "bad"
        /\ phase[d] = "connected"
        /\ lastEmit.op = "message:send" /\ lastEmit.conn = d
        /\ d \in lastEmit.members

\* C2: every session that is a member of the room when message:send is
\* handled receives exactly one copy of the message:new, whatever the other
\* sessions did before or do afterwards.
C2_ExactlyOneCopyToEachMember ==
    lastEmit.op = "message:send" =>
        \A s \in lastEmit.members : Copies(s, lastEmit.n) = 1

C2_Witness ==
    /\ lastEmit.op = "message:send"
    /\ lastEmit.members = Conns
    /\ \A s \in Conns : Copies(s, lastEmit.n) = 1

\* C3: a message:send by an identity that is not a participant of the
\* conversation delivers message:new to nobody and exactly one error with
\* code NotParticipant, to the sender only.
C3_NonParticipantSendRejected ==
    (lastEmit.op = "message:send" /\ ~isUserParticipant(lastEmit.conv, lastEmit.uid)) =>
        /\ \A s \in Conns : \A p \in PacketsOf(s, lastEmit.n) : p.name # "message:new"
        /\ \A s \in Conns \ {lastEmit.conn} : Copies(s, lastEmit.n) = 0
        /\ Copies(lastEmit.conn, lastEmit.n) = 1
        /\ \A p \in PacketsOf(lastEmit.conn, lastEmit.n) :
               p.name = "error" /\ p.payload.code = "NotParticipant"

\* C4: room isolation.  A packet of an emit for a room is written only to
\* sessions that were in that room's membership set when the emit was made,
\* and a sender that is a member does get its own message:new; a connected
\* participant that never joined gets nothing.
C4_RoomIsolation ==
    /\ \A s \in Conns : Copies(s, lastEmit.n) > 0 => s \in lastEmit.members
    /\ (lastEmit.op = "message:send" /\ lastEmit.conn \in lastEmit.members) =>
           \E p \in PacketsOf(lastEmit.conn, lastEmit.n) : p.name = "message:new"

C4_Witness ==
    \E a, b \in Conns :
        /\ lastEmit.op = "message:send" /\ lastEmit.conn = a
        /\ lastEmit.members = {a}
        /\ Copies(a, lastEmit.n) = 1
        /\ phase[b] = "connected"
        /\ isUserParticipant(lastEmit.conv, userId[b])
        /\ subscription[<<b, lastEmit.conv>>] = "none"
        /\ received[b] = <<>>

\* C5: when message:send {conversationId: c, content: x} is handled, every
\* member of room c receives, from that one emit, a message:new whose
\* content is x, whose conversationId is c and whose senderId is the id of
\* the sender's identity.
C5_MessageNewPayload ==
    lastEmit.op = "message:send" =>
        \A s \in lastEmit.members :
            \A p \in PacketsOf(s, lastEmit.n) :
                /\ Copies(s, lastEmit.n) = 1
                /\ p.name = "message:new"
                /\ p.payload.content = lastEmit.content
                /\ p.payload.conversationId = lastEmit.conv
                /\ p.payload.senderId = lastEmit.uid

C5_Witness ==
    \E a, b \in Conns :
        /\ a # b
        /\ lastEmit.op = "message:send" /\ lastEmit.conn = a
        /\ lastEmit.content = "hi"
        /\ lastEmit.members = {a, b}
        /\ user[a].id # user[b].id
        /\ \E p \in PacketsOf(b, lastEmit.n) : p.payload.senderId = user[a].id

\* C6: while a session has joined a room and since left it, no message:new
\* for that room is written to it; delivery resumes only after it joins again.
C6_LeaveRemovesDelivery ==
    [][\A a \in Conns, v \in Convs :
          subscription[<<a, v>>] = "left" =>
              \A p \in NewPackets(a) :
                  ~(p.name = "message:new" /\ p.payload.conversationId = v)]_vars

C6_Witness ==
    \E a, b \in Conns :
        /\ a # b
        /\ lastEmit.op = "message:send" /\ lastEmit.conn = b
        /\ subscription[<<a, lastEmit.conv>>] = "left"
        /\ phase[a] = "connected"
        /\ lastEmit.members = {b}
        /\ Copies(b, lastEmit.n) = 1
        /\ received[a] = <<>>

\* C7: typing:start (typing:stop) from session S for room R writes exactly
\* one typing:update {userId: S's identity id, isTyping: TRUE (FALSE),
\* conversationId: R} to every other member of R and nothing to anyone
\* else, in particular nothing to S, member of R or not.
C7_TypingToOthersOnly ==
    lastEmit.op \in {"typing:start", "typing:stop"} =>
        \A s \in Conns :
            IF s \in lastEmit.members \ {lastEmit.conn}
            THEN /\ Copies(s, lastEmit.n) = 1
                 /\ PacketsOf(s, lastEmit.n) =
                      {[name |-> "typing:update",
                        payload |-> [userId |-> lastEmit.uid,
                                     isTyping |-> (lastEmit.op = "typing:start"),
                                     conversationId |-> lastEmit.conv],
                        emit |-> lastEmit.n]}
            ELSE Copies(s, lastEmit.n) = 0

C7_Witness ==
    \E a, b \in Conns :
        /\ a # b
        /\ lastEmit.op = "typing:start" /\ lastEmit.conn = a
        /\ lastEmit.members = {a, b}
        /\ Copies(b, lastEmit.n) = 1
        /\ received[a] = <<>>

\* C8: once a session has disconnected it is in the membership set of no
\* room and has no subscribed room, and nothing more is written to it.
C8_DisconnectedInNoRoom ==
    [][\A c \in Conns :
          phase'[c] = "closed" =>
              /\ c \notin DOMAIN sids'
              /\ \A r \in DOMAIN rooms' : c \notin rooms'[r]
              /\ phase[c] = "closed" => received'[c] = received[c]]_vars

C8_Witness ==
    \E c, d \in Conns :
        /\ phase[c] = "closed"
        /\ c \in lastEmit.members
        /\ Copies(c, lastEmit.n) = 1
        /\ Members(lastEmit.conv) = {d}
        /\ d # c

\* Every room key held by either map of the adapter.
AllRoomKeys == DOMAIN rooms \cup UNION {sids[s] : s \in DOMAIN sids}

\* C9: in every reachable state a session has room r in its own
\* subscribed-room set exactly when it is in the registry's membership set
\* of r.
C9_BidirectionalMembership ==
    \A s \in Conns : \A r \in AllRoomKeys :
        r \in SubscribedRooms(s) <=> s \in Get(rooms, r)

C9_Witness ==
    \E a, b \in Conns :
        /\ a # b
        /\ Cardinality(SubscribedRooms(a)) = 3
        /\ subscription[<<b, "c1">>] = "left"
        /\ subscription[<<b, "c2">>] = "joined"
        /\ lastEmit.n > 0

\* C10: room:join handled for a session that is already a member changes
\* neither map of the registry (the room keeps its size), and a message:send
\* to the room then writes one packet to that session, not two.
C10_JoinIdempotent ==
    [][\A c \in Conns, v \in Convs :
          /\ (c \in Members(v) /\ RoomJoin(c, v)) =>
                 /\ rooms' = rooms
                 /\ sids' = sids
                 /\ Cardinality(Get(rooms', RoomKey(v))) = Cardinality(Members(v))
          /\ (c \in Members(v) /\ lastEmit'.n = lastEmit.n + 1
                /\ lastEmit'.op = "message:send" /\ lastEmit'.conv = v) =>
                 Len(received'[c]) = Len(received[c]) + 1]_vars

C10_Witness ==
    \E c \in Conns, v \in Convs :
        /\ subscription[<<c, v>>] = "joined"
        /\ Members(v) = Conns
        /\ CanHandle(c, "room:join")
        /\ lastEmit.op = "message:send" /\ lastEmit.conv = v
        /\ lastEmit.members = Conns
        /\ Copies(c, lastEmit.n) = 1

----------------------------------------------------------------------------
(* C11..C20 *)

\* C11: room:leave handled for a session that is not in the room (never
\* joined, or already left) changes no membership set of any room and
\* writes no packet, so no error, to anyone.
C11_LeaveNotJoinedIsNoOp ==
    [][\A c \in Conns, v \in Convs :
          (c \notin Members(v) /\ RoomLeave(c, v)) =>
              /\ rooms' = rooms
              /\ sids' = sids
              /\ received' = received
              /\ phase' = phase]_vars

C11_Witness ==
    \E c, d \in Conns : \E v, w \in Convs :
        /\ c # d /\ v # w
        /\ CanHandle(c, "room:leave")
        /\ subscription[<<c, v>>] = "left"
        /\ subscription[<<c, w>>] = "none"
        /\ Members(v) = {d}
        /\ Members(w) = {d}
        /\ \A s \in Conns : \A i \in DOMAIN received[s] : received[s][i].name # "error"

\* The error kinds a failed message:send may be reported with.
SendErrorKinds == {"NotParticipant", "PersistenceFailure", "ValidationFailure"}

\* createMessage for these arguments throws whatever nonce is drawn, also
\* when the database answers every query.
PersistenceMustFail(conversationId, uid, content) ==
    \A n \in Nonces :
        createMessage(conversationId, uid, content, n).threw

\* C12: when the persistence a message:send needs cannot succeed, nothing of
\* the send is broadcast: no connection is written a message:new, no
\* connection but the sender is written anything, and the sender is written
\* exactly one error whose code is one of the error kinds.
C12_FailedPersistenceBroadcastsNothing ==
    (/\ lastEmit.op = "message:send"
     /\ PersistenceMustFail(lastEmit.conv, lastEmit.uid, lastEmit.content)) =>
        /\ \A s \in Conns : \A p \in PacketsOf(s, lastEmit.n) : p.name = "error"
        /\ \A s \in Conns \ {lastEmit.conn} : PacketsOf(s, lastEmit.n) = {}
        /\ Copies(lastEmit.conn, lastEmit.n) = 1
        /\ \A p \in PacketsOf(lastEmit.conn, lastEmit.n) :
               p.payload.code \in SendErrorKinds

\* C13: message:send is not gated on room membership.  A connected session
\* can send to a conversation whose room it is not in; the send then writes
\* exactly one message:new to each session that is in the room and nothing to
\* the sender.
C13_SendNotGatedOnMembership ==
    /\ \A c \in Conns, v \in Convs :
           (/\ phase[c] = "connected"
            /\ c \notin Members(v)
            /\ lastEmit.n < MaxBroadcasts) => ENABLED MessageSend(c, v, "hi")
    /\ (lastEmit.op = "message:send" /\ lastEmit.conn \notin lastEmit.members) =>
           /\ \A s \in lastEmit.members :
                  /\ Copies(s, lastEmit.n) = 1
                  /\ \A p \in PacketsOf(s, lastEmit.n) : p.name = "message:new"
           /\ \A s \in Conns \ lastEmit.members : Copies(s, lastEmit.n) = 0

C13_Witness ==
    \E d \in Conns :
        /\ lastEmit.op = "message:send"
        /\ lastEmit.conn # d
        /\ lastEmit.members = {d}
        /\ phase[lastEmit.conn] = "connected"
        /\ \A v \in Convs : lastEmit.conn \notin Members(v)
        /\ Copies(d, lastEmit.n) = 1
        /\ Copies(lastEmit.conn, lastEmit.n) = 0

\* C14: every message:new written to a connection was built from a row that
\* createMessage stored: the table holds a message with the packet's id,
\* conversationId, senderId, type and createdAt, and two rows of the table
\* never share an id.
C14_MessageNewIsPersistedMessage ==
    /\ \A s \in Conns : \A i \in DOMAIN received[s] :
           received[s][i].name = "message:new" =>
               \E k \in DOMAIN messages :
                   /\ messages[k].id = received[s][i].payload.id
                   /\ messages[k].conversationId = received[s][i].payload.conversationId
                   /\ messages[k].senderId = received[s][i].payload.senderId
                   /\ messages[k].type = received[s][i].payload.type
    /\ \A k, l \in DOMAIN messages : messages[k].id = messages[l].id => k = l

\* C15: the listeners of the named events exist only on a connection whose
\* token the verifier accepted, with the decoded identity attached and
\* captured; a connection whose handshake has not succeeded has no session,
\* no subscription, and has caused no emit.
C15_NoEventBeforeAuthentication ==
    \A c \in Conns :
        /\ handlers[c] # {} =>
               /\ token[c] \in ValidTokens
               /\ user[c] = Decoded(token[c])
               /\ userId[c] = user[c].id
        /\ phase[c] \in {"new", "authing", "authing_closed", "rejected", "ignored"} =>
               /\ NoSession(c)
               /\ \A v \in Convs : subscription[<<c, v>>] = "none"

C15_Witness ==
    \E c, d \in Conns :
        /\ phase[c] = "connected"
        /\ EventNames \subseteq handlers[c]
        /\ lastEmit.conn = c
        /\ lastEmit.uid = Decoded(token[c]).id
        /\ phase[d] = "authing"
        /\ token[d] \in ValidTokens
        /\ handlers[d] = {}

\* C18: a message:send whose content the schema refuses (empty content)
\* writes no message:new to any connection and exactly one packet, an error,
\* to the sender.
C18_EmptyContentRejected ==
    (lastEmit.op = "message:send" /\ ~SchemaAccepts(lastEmit.content)) =>
        /\ \A s \in Conns \ {lastEmit.conn} : Copies(s, lastEmit.n) = 0
        /\ Copies(lastEmit.conn, lastEmit.n) = 1
        /\ \A p \in PacketsOf(lastEmit.conn, lastEmit.n) : p.name = "error"

\* C20 as stated: every createMessage call for a user who is not a
\* participant of the conversation ends with NOT_PARTICIPANT and status 403,
\* without a row and without a call of encrypt.
C20_AlwaysNotParticipant ==
    [][\A k \in CallIds :
          (/\ calls[k].pc = "findFirst"
           /\ calls[k].via = "service"
           /\ ~isUserParticipant(calls[k].conversationId, calls[k].uid)
           /\ calls'[k].pc # "findFirst") =>
              /\ messages' = messages
              /\ encryptCalls' = encryptCalls
              /\ calls'[k].pc = "idle"
              /\ ~outcome'.ok
              /\ outcome'.status = 403
              /\ outcome'.code = "NOT_PARTICIPANT"]_vars

\* C20: a call of createMessage for a user who is not a participant of the
\* conversation never gets to encrypt or to the insert and always fails: no
\* step of the call changes the message table or the number of encrypt
\* calls.  When the participant query answers, the call fails with
\* NOT_PARTICIPANT and status 403; when the query itself fails, the call
\* fails with the query's error, whatever status and code that carries.
C20_NotParticipantCreatesNothing ==
    /\ [](\A k \in CallIds :
             calls[k].pc = "create" =>
                 isUserParticipant(calls[k].conversationId, calls[k].uid))
    /\ [][\A k \in CallIds :
             (/\ calls[k].pc = "findFirst"
              /\ calls[k].via = "service"
              /\ ~isUserParticipant(calls[k].conversationId, calls[k].uid)
              /\ calls'[k].pc # "findFirst") =>
                 /\ messages' = messages
                 /\ encryptCalls' = encryptCalls
                 /\ calls'[k].pc = "idle"
                 /\ outcome'.call = "service"
                 /\ ~outcome'.ok
                 /\ \/ /\ \E n \in Nonces : FindFirstResolves(k, n)
                       /\ outcome'.status = 403
                       /\ outcome'.code = "NOT_PARTICIPANT"
                    \/ \E e \in StorageErrors :
                          /\ FindFirstRejects(k, e)
                          /\ outcome'.status = e.statusCode
                          /\ outcome'.code = e.code]_vars

\* A non-participant's call has failed with NOT_PARTICIPANT while another
\* call, which has encrypted, is suspended at the insert, after a first row
\* was created.
C20_Witness ==
    /\ outcome.call = "service"
    /\ outcome.code = "NOT_PARTICIPANT"
    /\ outcome.status = 403
    /\ Len(messages) = 1
    /\ encryptCalls = 2
    /\ \E k \in CallIds : calls[k].pc = "create"

\* C16: in every step, a connection that is written an error packet is the
\* connection whose message:send failed in that step, and no other
\* connection is written an error packet in the step.
C16_ErrorOnlyToOriginator ==
    [][\A s \in Conns : \A p \in NewPackets(s) :
          p.name = "error" =>
              /\ lastEmit'.op = "message:send/catch"
              /\ lastEmit'.conn = s
              /\ Len(received'[s]) - Len(received[s]) <= 2
              /\ \A t \in Conns \ {s} : \A q \in NewPackets(t) : q.name # "error"]_vars

C16_Witness ==
    \E c, d \in Conns :
        /\ c # d
        /\ lastEmit.op = "message:send/catch"
        /\ lastEmit.conn = c
        /\ lastEmit.members = {c, d}
        /\ phase[d] = "connected"
        /\ \E p \in PacketsOf(c, lastEmit.n) :
               p.name = "error" /\ p.payload.code = "MESSAGE_SEND_ERROR"
        /\ \E p \in PacketsOf(d, lastEmit.n) : p.name = "message:new"
        /\ \A p \in PacketsOf(d, lastEmit.n) : p.name # "error"

\* C17: an inbound event of a kind the server does not know writes an error
\* packet to the connection that sent it and to no other connection, changes
\* no room membership and leaves the connection open.
C17_UnknownEventReported ==
    [][\A c \in Conns, ev \in UnknownEvents :
          UnknownEvent(c, ev) =>
              /\ \E p \in NewPackets(c) : p.name = "error"
              /\ \A s \in Conns \ {c} : NewPackets(s) = {}
              /\ rooms' = rooms
              /\ sids' = sids
              /\ phase'[c] = "connected"]_vars

----------------------------------------------------------------------------
(* C21..C30 *)

\* C21: handling room:join writes no packet to any connection, the joining
\* one included, and counts as no emit: a step that writes a packet or
\* counts as an emit is not the handling of a room:join.
C21_JoinEmitsNothing ==
    [][\/ received' = received /\ lastEmit' = lastEmit
       \/ \A c \in Conns, v \in Convs : ~RoomJoin(c, v)]_vars

C21_Witness ==
    \E c, d \in Conns :
        /\ c # d
        /\ subscription[<<c, "c1">>] = "joined"
        /\ subscription[<<d, "c1">>] = "joined"
        /\ Members("c1") = {c, d}
        /\ lastEmit = NoEmit
        /\ \A s \in Conns : received[s] = <<>>

\* C22: a second close signal for a connection whose close was already
\* handled finds it in no room and, whether Socket.IO ignores the signal or
\* goes through the close again, changes neither map of the registry nor any
\* connection's phase, and writes no packet.
C22_DisconnectIdempotent ==
    [][\A c \in Conns, again \in BOOLEAN :
          DuplicateClose(c, again) =>
              /\ c \notin DOMAIN sids
              /\ \A r \in DOMAIN rooms : c \notin rooms[r]
              /\ rooms' = rooms
              /\ sids' = sids
              /\ phase' = phase
              /\ received' = received
              /\ lastEmit' = lastEmit]_vars

C22_Witness ==
    \E c, d \in Conns :
        /\ c # d
        /\ unhandled = [conn |-> c, name |-> "close"]
        /\ phase[c] = "closed"
        /\ lastEmit.conn = c
        /\ c \in lastEmit.members
        /\ phase[d] = "connected"
        /\ Members("c1") = {d}

\* C23: the events of a connection are handled in the order they are
\* received.  The listener of message:send emits in the call that hands it the
\* event: no connection is written the message:new of a later message of the
\* sender before that of an earlier one, and a message:send received when
\* the sender is in the room (its room:join was received before) is broadcast
\* at once with the sender in the room: the sender is written the packet of
\* that message.
C23_FifoPerConnection ==
    /\ [](\A s \in Conns : \A i, j \in DOMAIN received[s] :
            (/\ i < j
             /\ received[s][i].name = "message:new"
             /\ received[s][j].name = "message:new") =>
                SendOrder(received[s][i].payload.content)
                    < SendOrder(received[s][j].payload.content))
    /\ [][\A v \in Convs :
            (/\ AsyncMessageSend(v, FALSE)
             /\ FifoSender \in Members(v)) =>
                /\ Len(received'[FifoSender]) = Len(received[FifoSender]) + 1
                /\ \A p \in NewPackets(FifoSender) :
                       /\ p.name = "message:new"
                       /\ p.payload.content = FifoContents[Arrived + 1]]_vars

C23_Witness ==
    \E d \in Conns :
        /\ d # FifoSender
        /\ suspended = {}
        /\ Len(received[d]) = 2
        /\ received[d][1].payload.content = "m1"
        /\ received[d][2].payload.content = "m2"
        /\ Len(received[FifoSender]) = 1
        /\ received[FifoSender][1].payload.content = "m2"

\* C24: a connection whose transport has gone and that has no call in flight
\* is in no room and has no entry in the registry; a connection whose
\* transport went during the verification of its token gets its verdict, and
\* a connection whose transport died is closed, in the end.
C24_NoDanglingRegistryEntry ==
    /\ [](\A c \in Conns :
            phase[c] \in {"rejected", "ignored", "closed"} =>
                /\ c \notin DOMAIN sids
                /\ \A r \in DOMAIN rooms : c \notin rooms[r])
    /\ \A c \in Conns :
           (phase[c] = "authing_closed") ~> (phase[c] = "ignored" /\ c \notin DOMAIN sids)
    /\ \A c \in Conns :
           (phase[c] = "dying") ~> (phase[c] = "closed" /\ c \notin DOMAIN sids)

C24_Witness ==
    \E c, d \in Conns :
        /\ phase[c] = "ignored"
        /\ token[c] \in ValidTokens
        /\ user[c] = Decoded(token[c])
        /\ c \notin DOMAIN sids
        /\ phase[d] = "closed"
        /\ d \notin DOMAIN sids

\* C25: the identity of a session is the one the verifier decoded from its
\* token and does not change afterwards.  Every message:new carries it as
\* senderId and every typing:update as userId, for the session that caused
\* the emit, and user, userId and token of a session stay as they are once
\* it is connected.
C25_IdentityFixedAtHandshake ==
    /\ [](lastEmit.n > 0 =>
            \A s \in Conns : \A p \in PacketsOf(s, lastEmit.n) :
                /\ p.name = "message:new" =>
                       p.payload.senderId = Decoded(token[lastEmit.conn]).id
                /\ p.name = "typing:update" =>
                       p.payload.userId = Decoded(token[lastEmit.conn]).id)
    /\ [][\A c \in Conns :
            phase[c] \in {"connected", "closed"} =>
                /\ user'[c] = user[c]
                /\ userId'[c] = userId[c]
                /\ token'[c] = token[c]]_vars

C25_Witness ==
    \E c, d \in Conns :
        /\ c # d
        /\ token[c] = "tokB"
        /\ token[d] = "tokA"
        /\ lastEmit.op = "typing:start"
        /\ lastEmit.conn = c
        /\ \E p \in PacketsOf(d, lastEmit.n) :
               p.name = "typing:update" /\ p.payload.userId = "uB"

\* The fallback result of generateResponse.
Fallback == [text |-> FALLBACK_MESSAGE, latencyMs |-> 0]

\* C26 as stated: a call the provider has not answered within TIMEOUT_MS
\* ends with the fallback message.
C26_FallbackAfterTimeout ==
    (ai.phase = "settled" /\ ai.settledAt > TIMEOUT_MS) => ai.value = Fallback

\* C26: generateResponse never rejects and always settles.  When the
\* provider resolved while the race was open the result is the provider's
\* answer, also when that is later than TIMEOUT_MS after the call because the
\* timer's callback has not run yet; in every other case (the provider
\* rejected, threw, or the timer's callback ran first, even if the provider
\* answers later) it is the fallback message with latencyMs 0.  The timer's
\* callback never runs earlier than TIMEOUT_MS after the call.
C26_GenerateResponseAlwaysResolves ==
    /\ [](ai.settled # "rejected")
    /\ [](ai.phase = "settled" =>
            /\ ai.settled = "resolved"
            /\ IF ai.cause = "provider"
               THEN ai.value = ai.answer /\ ai.provider = "resolved"
               ELSE ai.value = Fallback)
    /\ [](ai.cause = "timeout" => ai.settledAt >= TIMEOUT_MS)
    /\ [][ai.phase = "racing" =>
            /\ \A answer \in Answers :
                   ProviderResolves(answer) => ai'.value = answer
            /\ (ProviderRejects \/ TimerFires) => ai'.value = Fallback]_vars
    /\ (ai.phase = "racing") ~> (ai.phase = "settled")

\* The provider answered 9000 ms after the call, the timer's callback had
\* not run, and the result is the provider's answer.
C26_Witness ==
    /\ ai.phase = "settled"
    /\ ai.cause = "provider"
    /\ ai.settledAt = TIMEOUT_MS + TickMs
    /\ ai.answer.latencyMs = 500
    /\ ai.value = ai.answer
    /\ ai.value # Fallback

\* C27: the sender of a typing event is excluded as a connection, not as a
\* user: another session of the same user that is in the room is written the
\* typing:update, exactly once, and the sending session is written nothing.
C27_TypingExclusionPerConnection ==
    lastEmit.op \in {"typing:start", "typing:stop"} =>
        /\ \A s \in lastEmit.members \ {lastEmit.conn} :
               userId[s] = lastEmit.uid =>
                   /\ Copies(s, lastEmit.n) = 1
                   /\ \A p \in PacketsOf(s, lastEmit.n) :
                          p.name = "typing:update" /\ p.payload.userId = userId[s]
        /\ Copies(lastEmit.conn, lastEmit.n) = 0

C27_Witness ==
    \E c, d \in Conns :
        /\ c # d
        /\ token[c] = "tokA" /\ token[d] = "tokA"
        /\ userId[c] = userId[d]
        /\ lastEmit.op = "typing:start"
        /\ lastEmit.conn = c
        /\ lastEmit.members = {c, d}
        /\ Copies(d, lastEmit.n) = 1
        /\ Copies(c, lastEmit.n) = 0

\* C28: handling message:send, typing:start or typing:stop leaves both maps
\* of the registry as they were, also when the message:send fails in its try
\* block and reports an error.
C28_EmitsKeepMembership ==
    [][\A c \in Conns, v \in Convs :
          (\/ \E x \in FaultContents : MessageSend(c, v, x)
           \/ \E x \in FaultContents, w \in SUBSET Conns : MessageSendThrows(c, v, x, w)
           \/ TypingStart(c, v)
           \/ TypingStop(c, v)) =>
              /\ rooms' = rooms
              /\ sids' = sids
              /\ subscription' = subscription]_vars

C28_Witness ==
    \E c, d \in Conns :
        /\ c # d
        /\ lastEmit.op = "message:send/catch"
        /\ lastEmit.conn = c
        /\ lastEmit.members = {d}
        /\ Members(lastEmit.conv) = {d}
        /\ SubscribedRooms(c) = {c}
        /\ \E p \in PacketsOf(c, lastEmit.n) : p.name = "error"

\* Every room key a step can touch: the conversations' rooms and the
\* sockets' own rooms.
RoomKeys == {RoomKey(v) : v \in Convs} \cup Conns

\* C29: handling room:join or room:leave of session c for conversation v
\* changes the registry at most in the pair (c, room of v): if the step
\* changes the registry at all, then for every other
\* pair of a session and a room, the session is in the room's membership set
\* after the step exactly if it was before, and likewise for the sessions'
\* subscribed-room sets.  Distinct conversation ids have distinct room keys,
\* none of which is a socket's own room.
C29_JoinLeaveFrame ==
    [][\A c \in Conns, v \in Convs :
          (/\ rooms' # rooms \/ sids' # sids
           /\ RoomJoin(c, v) \/ RoomLeave(c, v)) =>
              /\ \A s \in Conns, r \in RoomKeys :
                     <<s, r>> # <<c, RoomKey(v)>> =>
                         /\ s \in Get(rooms', r) <=> s \in Get(rooms, r)
                         /\ r \in Get(sids', s) <=> r \in Get(sids, s)
              /\ DOMAIN rooms' \subseteq RoomKeys
              /\ \A w \in Convs : w # v => RoomKey(w) # RoomKey(v)
              /\ RoomKey(v) \notin Conns]_vars

C29_Witness ==
    \E c, d \in Conns :
        /\ c # d
        /\ subscription[<<c, "c1">>] = "joined"
        /\ subscription[<<c, "c2">>] = "joined"
        /\ subscription[<<d, "c1">>] = "joined"
        /\ subscription[<<d, "c2">>] = "left"
        /\ Members("c1") = {c, d}
        /\ Members("c2") = {c}
        /\ SubscribedRooms(c) = {c, RoomKey("c1"), RoomKey("c2")}
        /\ SubscribedRooms(d) = {d, RoomKey("c1")}

\* C30: the handshake takes the token of the auth payload and, only if there
\* is none, the token of the query string.  With neither, the connection is
\* rejected with 'Authentication error: Token not provided' and the verifier
\* is not started; a token the verifier refuses is reported as
\* 'Authentication error: Invalid token'; in both cases no identity is
\* attached to the socket.
C30_HandshakeTokenSource ==
    [][/\ \A c \in Conns, a \in AuthTokens, q \in QueryTokens :
             Connect(c, a, q) =>
                 IF a # NoToken \/ q # NoToken
                 THEN /\ token'[c] = (IF a # NoToken THEN a ELSE q)
                      /\ phase'[c] = "authing"
                      /\ connectError'[c] = NoError
                 ELSE /\ phase'[c] = "rejected"
                      /\ connectError'[c] = "Authentication error: Token not provided"
                      /\ token'[c] = NoToken
                      /\ user'[c] = NoUser
       /\ \A c \in Conns :
             AuthReject(c) =>
                 /\ token[c] \notin ValidTokens
                 /\ connectError'[c] = "Authentication error: Invalid token"
                 /\ phase'[c] \in {"rejected", "ignored"}
                 /\ user'[c] = NoUser
       /\ \A c \in Conns :
             (phase[c] = "rejected" /\ connectError[c] = "Authentication error: Token not provided")
                 => (phase'[c] = "rejected" /\ token'[c] = NoToken /\ user'[c] = NoUser)]_vars

C30_Witness ==
    \E c, d \in Conns :
        /\ phase[c] = "rejected"
        /\ connectError[c] = "Authentication error: Token not provided"
        /\ token[c] = NoToken
        /\ user[c] = NoUser
        /\ phase[d] = "rejected"
        /\ connectError[d] = "Authentication error: Invalid token"
        /\ token[d] = "bad"
        /\ user[d] = NoUser

====
